---- MODULE Spec2Model ----
(***************************************************************************)
(* vvcnv: a batch transcoder.  main probes the source video (video::stat), *)
(* expands a matrix of (resolution, fps, crf) configurations, spawns one   *)
(* tokio task per configuration, joins them and prints a report.           *)
(*                                                                         *)
(* Strings are sequences of tokens, numbers are formatted digit by digit.  *)
(* f32 frame rates are fixed-point hundredths (2997 is 29.97 fps); f64     *)
(* durations are milliseconds.                                             *)
(***************************************************************************)
EXTENDS Integers, Sequences, FiniteSets, TLC

VARIABLES
    pc,         \* position of main: "start", "spawn", "report", "exit", or where it ended early
    probe,      \* the probing ffmpeg process: its event stream, and the source file it reads
    stat,       \* the VideoStat returned by video::stat (NoStat before)
    res_iter,   \* main.rs:77
    fps_iter,   \* main.rs:78
    crf_iter,   \* main.rs:79
    spawned,    \* the VideoConfig each spawned task was created with, in spawn order
    task,       \* per spawned task: position of the task ("ready", "running", "done", "panicked")
    pb,         \* per task: its ProgressBar
    launched,   \* per task: the argument list of the ffmpeg process it spawned (<<>> if none)
    exited,     \* per task: exit status of its ffmpeg process ("none" while there is none)
    outFiles,   \* the paths of the output files written so far
    completed,  \* the outputs of the finished tasks, in completion order
    results,    \* main.rs:127, the unwrapped outputs of join_all
    banner,     \* whether the success banner was printed (main.rs:134)
    printed,    \* the failure entries printed by the report (main.rs:137)
    exitCode,   \* exit status of the program ("none" while it runs)
    call,       \* the call of a function applied on its own (op = "none" in a run of main)
    ret         \* the value that call returned

vars == <<pc, probe, stat, res_iter, fps_iter, crf_iter, spawned, task, pb,
          launched, exited, outFiles, completed, results, banner, printed, exitCode,
          call, ret>>

mainVars == <<pc, probe, stat, res_iter, fps_iter, crf_iter, spawned, task, pb,
              launched, exited, outFiles, completed, results, banner, printed, exitCode>>

(***************************************************************************)
(* Bounds of the model.                                                    *)
(***************************************************************************)
\* the largest number of configurations in a sweep
MaxJobs == 4

(***************************************************************************)
(* VideoRes                                                                *)
(***************************************************************************)
Preset(t) == [tag |-> t, w |-> 0, h |-> 0]

Other(width, height) == [tag |-> "Other", w |-> width, h |-> height]

R240p == Preset("R240p")
R360p == Preset("R360p")
R480p == Preset("R480p")
R720p == Preset("R720p")
R1080p == Preset("R1080p")
R1440p == Preset("R1440p")
R2160p == Preset("R2160p")
R4320p == Preset("R4320p")

list169 == <<R240p, R360p, R480p, R720p, R1080p, R1440p, R2160p, R4320p>>

to_wh(res) ==
    CASE res.tag = "R240p" -> <<426, 240>>
      [] res.tag = "R360p" -> <<640, 360>>
      [] res.tag = "R480p" -> <<854, 480>>
      [] res.tag = "R720p" -> <<1280, 720>>
      [] res.tag = "R1080p" -> <<1920, 1080>>
      [] res.tag = "R1440p" -> <<2560, 1440>>
      [] res.tag = "R2160p" -> <<3840, 2160>>
      [] res.tag = "R4320p" -> <<7680, 4320>>
      [] res.tag = "Other" -> <<res.w, res.h>>

from_wh(width, height) ==
    CASE <<width, height>> = <<426, 240>> -> R240p
      [] <<width, height>> = <<640, 360>> -> R360p
      [] <<width, height>> = <<854, 480>> -> R480p
      [] <<width, height>> = <<1280, 720>> -> R720p
      [] <<width, height>> = <<1920, 1080>> -> R1080p
      [] <<width, height>> = <<2560, 1440>> -> R1440p
      [] <<width, height>> = <<3840, 2160>> -> R2160p
      [] <<width, height>> = <<7680, 4320>> -> R4320p
      [] OTHER -> Other(width, height)

\* Option<i32>: None is the empty sequence, Some(x) the sequence of x
None == <<>>
Some(x) == <<x>>

\* `x as u32` of an i32: the value itself when it is not negative, as every axis
\* drawn here is
I32AsU32(x) == x

\* `(num as f32 / den as f32).round() as u32` for num >= 0 and den > 0: the quotient
\* rounded to the nearest integer, halves away from zero.  The sources and axes drawn
\* here give no quotient that ends in one half, where the f32 ratio could tip the
\* rounding either way.
RoundAsU32(num, den) == (2 * num + den) \div (2 * den)

BothAreDynamicValue == [kind |-> "Err", err |-> "BothAreDynamicValue"]

\* variant: the derived axis is truncated, not rounded
from_wh_dynamic_Truncates(width, height, video_stream) ==
    IF width = None /\ height = None THEN BothAreDynamicValue
    ELSE LET rw == video_stream.width
             rh == video_stream.height
             computed_width == IF width # None THEN I32AsU32(width[1])
                               ELSE (height[1] * rw) \div rh
             computed_height == IF height # None THEN I32AsU32(height[1])
                                ELSE (width[1] * rh) \div rw
         IN  [kind |-> "Ok", res |-> from_wh(computed_width, computed_height)]

\* variant: with neither axis given the source's own size is returned
from_wh_dynamic_DefaultsToSource(width, height, video_stream) ==
    LET rw == video_stream.width
        rh == video_stream.height
        computed_width == IF width # None THEN I32AsU32(width[1])
                          ELSE IF height = None THEN rw
                          ELSE RoundAsU32(height[1] * rw, rh)
        computed_height == IF height # None THEN I32AsU32(height[1])
                           ELSE IF width = None THEN rh
                           ELSE RoundAsU32(width[1] * rh, rw)
    IN  [kind |-> "Ok", res |-> from_wh(computed_width, computed_height)]

\* VideoRes::from_wh_dynamic: ratio = rw / rh; a missing width is height * ratio, a
\* missing height is width / ratio
from_wh_dynamic(width, height, video_stream) ==
    IF width = None /\ height = None THEN BothAreDynamicValue
    ELSE LET rw == video_stream.width
             rh == video_stream.height
             computed_width == IF width # None THEN I32AsU32(width[1])
                               ELSE RoundAsU32(height[1] * rw, rh)
             computed_height == IF height # None THEN I32AsU32(height[1])
                                ELSE RoundAsU32(width[1] * rh, rw)
         IN  [kind |-> "Ok", res |-> from_wh(computed_width, computed_height)]

\* format!("{}", n) of an unsigned integer: its decimal digits
RECURSIVE Display(_)
Display(n) ==
    LET digit == <<"0", "1", "2", "3", "4", "5", "6", "7", "8", "9">>[(n % 10) + 1]
    IN  IF n < 10 THEN <<digit>> ELSE Display(n \div 10) \o <<digit>>

VideoRes_to_file_name(res) ==
    LET wh == to_wh(res)
    IN  Display(wh[1]) \o <<"x">> \o Display(wh[2])

to_args(res) ==
    LET wh == to_wh(res)
    IN  <<"-s", " ">> \o Display(wh[1]) \o <<"x">> \o Display(wh[2])

(***************************************************************************)
(* VideoConfig                                                             *)
(***************************************************************************)
VideoConfig(res, fps, crf, has_audio) ==
    [res |-> res, fps |-> fps, crf |-> crf, has_audio |-> has_audio]

\* variant: the quality factor is left out of the name
VideoConfig_to_file_name_NoCrf(config) ==
    <<"--res-">> \o VideoRes_to_file_name(config.res)
        \o <<"--fps-">> \o Display(config.fps)
        \o <<"--crf-">>

VideoConfig_to_file_name(config) ==
    <<"--res-">> \o VideoRes_to_file_name(config.res)
        \o <<"--fps-">> \o Display(config.fps)
        \o <<"--crf-">> \o Display(config.crf)

\* `x as u32` of a non-negative f32 held in hundredths: truncation
F32AsU32(x100) == x100 \div 100

UpOk == [kind |-> "Ok"]
UpResolution(c, r) == [kind |-> "Resolution", c |-> c, r |-> r]
UpFps(c, r) == [kind |-> "Fps", c |-> c, r |-> r]
UpHasAudio == [kind |-> "HasAudio"]

\* variant: the audio rule is checked before the resolution and the frame rate
check_up_scaling_AudioFirst(config, st) ==
    LET c_wh == to_wh(config.res)
    IN  IF config.has_audio /\ Len(st.audio_streams) = 0
        THEN UpHasAudio
        ELSE IF c_wh[1] > st.video_stream.width \/ c_wh[2] > st.video_stream.height
        THEN UpResolution(config.res, from_wh(st.video_stream.width, st.video_stream.height))
        ELSE IF config.fps > F32AsU32(st.video_stream.fps)
        THEN UpFps(config.fps, F32AsU32(st.video_stream.fps))
        ELSE UpOk

check_up_scaling(config, st) ==
    LET c_wh == to_wh(config.res)
    IN  IF c_wh[1] > st.video_stream.width \/ c_wh[2] > st.video_stream.height
        THEN UpResolution(config.res, from_wh(st.video_stream.width, st.video_stream.height))
        ELSE IF config.fps > F32AsU32(st.video_stream.fps)
        THEN UpFps(config.fps, F32AsU32(st.video_stream.fps))
        ELSE IF config.has_audio /\ Len(st.audio_streams) = 0
        THEN UpHasAudio
        ELSE UpOk

(***************************************************************************)
(* Events of the ffmpeg event stream (ffmpeg_sidecar::event::FfmpegEvent)  *)
(***************************************************************************)
ParsedDuration(ms) == [type |-> "ParsedDuration", duration |-> ms]
ParsedVideo(width, height, fps100) ==
    [type |-> "ParsedInputStream", kind |-> "Video",
     data |-> [width |-> width, height |-> height, fps |-> fps100, pix_fmt |-> "yuv420p"]]
ParsedAudio(channels) ==
    [type |-> "ParsedInputStream", kind |-> "Audio", data |-> [channels |-> channels]]
Progress(current_frame) == [type |-> "Progress", frame |-> current_frame]
Log(level, err) == [type |-> "Log", level |-> level, err |-> err]
OtherEvent == [type |-> "Other"]

FatalTag == "[fatal] "
NoOutputMsg == "At least one output file must be specified"

\* err.split("[fatal] ").last(): what follows the last "[fatal] " of the message
RECURSIVE SplitLast(_)
SplitLast(err) ==
    IF \E k \in 1..Len(err) : err[k] = FatalTag
    THEN SplitLast(Tail(err))
    ELSE err

LogOk == [kind |-> "Ok"]
LogErr(err_body) == [kind |-> "Err", body |-> err_body]

\* variant: a warning is an error too
handle_ffmpeg_event_log_WarningFails(level, err, ignore_no_input) ==
    IF level \in {"Fatal", "Error", "Warning"}
    THEN LET err_body == SplitLast(err)
             expected == (err_body = <<NoOutputMsg>>)
         IN  IF expected /\ ignore_no_input THEN LogOk ELSE LogErr(err_body)
    ELSE LogOk

\* variant: the expected message is let through whoever asks
handle_ffmpeg_event_log_AlwaysIgnores(level, err, ignore_no_input) ==
    IF level \in {"Fatal", "Error"}
    THEN LET err_body == SplitLast(err)
             expected == (err_body = <<NoOutputMsg>>)
         IN  IF expected THEN LogOk ELSE LogErr(err_body)
    ELSE LogOk

handle_ffmpeg_event_log(level, err, ignore_no_input) ==
    IF level \in {"Fatal", "Error"}
    THEN LET err_body == SplitLast(err)
             expected == (err_body = <<NoOutputMsg>>)
         IN  IF expected /\ ignore_no_input THEN LogOk ELSE LogErr(err_body)
    ELSE LogOk

(***************************************************************************)
(* video::stat                                                             *)
(***************************************************************************)
NoStat == [kind |-> "none"]
StatErr(e) == [kind |-> "Err", err |-> e]

\* the loop over the events of the probing process (video.rs:354-369)
RECURSIVE StatLoop(_, _, _)
StatLoop(events, input_duration_sec, input_streams) ==
    IF events = <<>>
    THEN [kind |-> "Ok", duration |-> input_duration_sec, streams |-> input_streams]
    ELSE LET e == Head(events)
         IN  CASE e.type = "ParsedDuration" ->
                    StatLoop(Tail(events), <<e.duration>>, input_streams)
               [] e.type = "ParsedInputStream" ->
                    StatLoop(Tail(events), input_duration_sec,
                             Append(input_streams, [kind |-> e.kind, data |-> e.data]))
               [] e.type = "Log" ->
                    LET r == handle_ffmpeg_event_log(e.level, e.err, TRUE)
                    IN  IF r.kind = "Err"
                        THEN [kind |-> "Err", err |-> [kind |-> "FfmpegError", body |-> r.body]]
                        ELSE StatLoop(Tail(events), input_duration_sec, input_streams)
               [] OTHER -> StatLoop(Tail(events), input_duration_sec, input_streams)

\* input_streams.iter().filter_map(..) keeping the streams of one kind, in order
RECURSIVE StreamsOfKind(_, _)
StreamsOfKind(input_streams, kind) ==
    IF input_streams = <<>> THEN <<>>
    ELSE IF Head(input_streams).kind = kind
         THEN <<Head(input_streams).data>> \o StreamsOfKind(Tail(input_streams), kind)
         ELSE StreamsOfKind(Tail(input_streams), kind)

\* file::calc_size of a file of the environment: its size, or an error
calc_size(file) == IF file.readable THEN [kind |-> "Ok", size |-> file.size] ELSE [kind |-> "Err"]

\* variant: of several video streams the first is taken
video_stat_TakesFirstVideo(input_path, p) ==
    LET loop == StatLoop(p.events, <<>>, <<>>)
    IN  IF loop.kind = "Err" THEN StatErr(loop.err)
        ELSE LET video_streams == StreamsOfKind(loop.streams, "Video")
                 audio_streams == StreamsOfKind(loop.streams, "Audio")
             IN  IF Len(video_streams) = 0 THEN StatErr([kind |-> "NoVideoStreamFound"])
                 ELSE IF loop.duration = <<>> THEN StatErr([kind |-> "NoDurationFound"])
                 ELSE IF calc_size(p.file).kind = "Err" THEN StatErr([kind |-> "FileError"])
                 ELSE [kind |-> "Ok",
                       path |-> input_path,
                       video_stream |-> video_streams[1],
                       audio_streams |-> audio_streams,
                       duration |-> loop.duration[1],
                       file_size |-> calc_size(p.file).size]

video_stat(input_path, p) ==
    LET loop == StatLoop(p.events, <<>>, <<>>)
    IN  IF loop.kind = "Err" THEN StatErr(loop.err)
        ELSE LET video_streams == StreamsOfKind(loop.streams, "Video")
                 audio_streams == StreamsOfKind(loop.streams, "Audio")
             IN  IF Len(video_streams) = 0 THEN StatErr([kind |-> "NoVideoStreamFound"])
                 ELSE IF Len(video_streams) > 1 THEN StatErr([kind |-> "MultipleVideoStreamFound"])
                 ELSE IF loop.duration = <<>> THEN StatErr([kind |-> "NoDurationFound"])
                 ELSE IF calc_size(p.file).kind = "Err" THEN StatErr([kind |-> "FileError"])
                 ELSE [kind |-> "Ok",
                       path |-> input_path,
                       video_stream |-> video_streams[1],
                       audio_streams |-> audio_streams,
                       duration |-> loop.duration[1],
                       file_size |-> calc_size(p.file).size]

(***************************************************************************)
(* The job matrix (main.rs:77-86)                                          *)
(***************************************************************************)
\* variant: the second iterator is the outer loop
RECURSIVE cartesian_product_InnerFirst(_, _)
cartesian_product_InnerFirst(X, Y) ==
    IF Y = <<>> THEN <<>>
    ELSE [i \in 1..Len(X) |-> <<X[i], Head(Y)>>] \o cartesian_product_InnerFirst(X, Tail(Y))

\* Itertools::cartesian_product: the first iterator is the outer loop
RECURSIVE cartesian_product(_, _)
cartesian_product(X, Y) ==
    IF X = <<>> THEN <<>>
    ELSE [j \in 1..Len(Y) |-> <<Head(X), Y[j]>>] \o cartesian_product(Tail(X), Y)

\* iproduct!(a, b, c): a.cartesian_product(b).cartesian_product(c), flattened to triples
iproduct(A, B, C) ==
    LET nested == cartesian_product(cartesian_product(A, B), C)
    IN  [k \in 1..Len(nested) |-> <<nested[k][1][1], nested[k][1][2], nested[k][2]>>]

iter_prod == iproduct(res_iter, fps_iter, crf_iter)

(***************************************************************************)
(* The inputs of a run: what the probing process emits, and the lists of   *)
(* the sweep.                                                              *)
(***************************************************************************)
\* main.rs:71, "assets/2.mp4" as directory, stem, dot, extension
input_path == <<"assets/", "2", ".", "mp4">>

\* file::get_file_name: the stem and the extension of a path
get_file_name(path) == <<path[2], path[4]>>

SourceFile(readable) == [readable |-> readable, size |-> 5]

ProbeRuns ==
    { \* 1280x720 at 30 fps with one audio stream; the benign log is swallowed
      [events |-> <<ParsedDuration(10000), ParsedVideo(1280, 720, 3000), ParsedAudio("stereo"),
                    Log("Error", <<NoOutputMsg>>)>>,
       file |-> SourceFile(TRUE), starts |-> TRUE],
      \* 1920x1080 at 30 fps without audio
      [events |-> <<ParsedDuration(10500), ParsedVideo(1920, 1080, 3000),
                    Log("Fatal", <<FatalTag, NoOutputMsg>>)>>,
       file |-> SourceFile(TRUE), starts |-> TRUE],
      \* 640x360 at 60 fps with two audio streams
      [events |-> <<Log("Warning", <<"deprecated">>), ParsedAudio("mono"),
                    ParsedVideo(640, 360, 6000), ParsedAudio("stereo"), OtherEvent,
                    ParsedDuration(2500)>>,
       file |-> SourceFile(TRUE), starts |-> TRUE],
      \* the failures of the probe
      [events |-> <<ParsedVideo(1280, 720, 3000), ParsedAudio("stereo")>>,
       file |-> SourceFile(TRUE), starts |-> TRUE],
      [events |-> <<ParsedDuration(10000), ParsedAudio("stereo")>>,
       file |-> SourceFile(TRUE), starts |-> TRUE],
      [events |-> <<ParsedDuration(10000), ParsedVideo(1280, 720, 3000),
                    ParsedVideo(640, 360, 3000)>>,
       file |-> SourceFile(TRUE), starts |-> TRUE],
      [events |-> <<ParsedDuration(10000), ParsedVideo(1280, 720, 3000),
                    Log("Error", <<"boom">>)>>,
       file |-> SourceFile(TRUE), starts |-> TRUE],
      [events |-> <<ParsedDuration(10000), ParsedVideo(1280, 720, 3000)>>,
       file |-> SourceFile(FALSE), starts |-> TRUE],
      \* ffmpeg cannot be started, or its event stream cannot be opened
      [events |-> <<>>, file |-> SourceFile(TRUE), starts |-> FALSE] }

ResLists ==
    { <<R720p>>, <<R240p, R1080p>>, <<R1080p, R4320p>>, <<R240p, R360p, R480p>>,
      <<R240p, R1080p, R1440p, R2160p, R4320p>> }
FpsLists == { <<30>>, <<30, 60>> }
CrfLists == { <<20>>, <<20, 40>> }

(***************************************************************************)
(* A task's ProgressBar (main.rs:92-94) and its output                     *)
(***************************************************************************)
\* {:?} of a VideoRes
Debug(res) ==
    IF res.tag = "Other"
    THEN <<"Other(">> \o Display(res.w) \o <<", ">> \o Display(res.h) \o <<")">>
    ELSE <<res.tag>>

Label(res, fps, crf) ==
    <<"RES: ">> \o Debug(res) \o <<", FPS: ">> \o Display(fps) \o <<", CRF: ">> \o Display(crf)

NoError == [kind |-> "none"]

NewProgressBar(res, fps, crf) ==
    [prefix |-> Label(res, fps, crf), has_length |-> FALSE, length |-> 0, position |-> 0,
     message |-> "", error |-> NoError, finished |-> 0, done_style |-> FALSE]

Ok == [kind |-> "Ok", err |-> NoError]
Err(e) == [kind |-> "Err", err |-> e]
JoinError == [kind |-> "JoinError", err |-> [kind |-> "panic"]]

UpScalingError(up) == [kind |-> "UpScaling", detail |-> up]
EncodingError(body) == [kind |-> "Encoding", detail |-> body]
OutputSizeError == [kind |-> "OutputSize", detail |-> <<>>]

\* main.rs:43
output_path(st, config) ==
    LET name_ext == get_file_name(st.path)
    IN  <<"out/", name_ext[1]>> \o VideoConfig_to_file_name(config) \o <<".", name_ext[2]>>

\* the argument list of the encoding process (video.rs:417-422)
ffmpeg_args(st, config, out) ==
    <<"-i">> \o st.path \o <<"-crf">> \o Display(config.crf) \o to_args(config.res)
        \o out \o <<"-y">>

Tasks == 1..Len(spawned)

Finished(i) == task[i] \in {"done", "panicked"}

\* the output of the JoinHandle of task i
JoinHandleOutput(i) ==
    LET k == CHOOSE k \in 1..Len(completed) : completed[k].job = i
    IN  completed[k].out

InitMain ==
    /\ pc = "start"
    /\ probe \in ProbeRuns
    /\ stat = NoStat
    /\ res_iter \in ResLists
    /\ fps_iter \in FpsLists
    /\ crf_iter \in CrfLists
    /\ Len(res_iter) * Len(fps_iter) * Len(crf_iter) <= MaxJobs
    /\ spawned = <<>>
    /\ task = <<>>
    /\ pb = <<>>
    /\ launched = <<>>
    /\ exited = <<>>
    /\ outFiles = {}
    /\ completed = <<>>
    /\ results = <<>>
    /\ banner = FALSE
    /\ printed = <<>>
    /\ exitCode = "none"

Init ==
    /\ InitMain
    /\ call = [op |-> "none"]
    /\ ret = [kind |-> "none"]

(***************************************************************************)
(* main, up to the join                                                    *)
(***************************************************************************)
\* variant: a probe error is not returned, the sweep is spawned all the same
Stat_GoesOn ==
    /\ pc = "start"
    /\ IF ~probe.starts
       THEN pc' = "probe panicked" /\ exitCode' = "FAILURE" /\ UNCHANGED stat
       ELSE /\ stat' = video_stat(input_path, probe)
            /\ pc' = "spawn"
            /\ UNCHANGED exitCode
    /\ UNCHANGED <<probe, res_iter, fps_iter, crf_iter, spawned, task, pb, launched,
                   exited, outFiles, completed, results, banner, printed, call, ret>>

\* main.rs:73-75: probe the source; a probe error ends the run, and so does the
\* panic of the unwraps of video.rs:349 and video.rs:354
Stat ==
    /\ pc = "start"
    /\ IF ~probe.starts
       THEN pc' = "probe panicked" /\ exitCode' = "FAILURE" /\ UNCHANGED stat
       ELSE /\ stat' = video_stat(input_path, probe)
            /\ IF stat'.kind = "Err"
               THEN pc' = "aborted" /\ exitCode' = "FAILURE"
               ELSE pc' = "spawn" /\ UNCHANGED exitCode
    /\ UNCHANGED <<probe, res_iter, fps_iter, crf_iter, spawned, task, pb, launched,
                   exited, outFiles, completed, results, banner, printed, call, ret>>

\* main.rs:91-115: join_all draws the next task from the lazy map, which registers
\* its progress bar and spawns it
SpawnTask ==
    /\ pc = "spawn"
    /\ Len(spawned) < Len(iter_prod)
    /\ LET t == iter_prod[Len(spawned) + 1]
       IN  /\ spawned' = Append(spawned, VideoConfig(t[1], t[2], t[3], TRUE))
           /\ pb' = Append(pb, NewProgressBar(t[1], t[2], t[3]))
    /\ task' = Append(task, "ready")
    /\ launched' = Append(launched, <<>>)
    /\ exited' = Append(exited, "none")
    /\ UNCHANGED <<pc, probe, stat, res_iter, fps_iter, crf_iter, outFiles, completed, results,
                   banner, printed, exitCode, call, ret>>

(***************************************************************************)
(* One spawned task: main::process (main.rs:41-67) around video::process   *)
(* (video.rs:404-449), and the inspect_err of main.rs:106-112              *)
(***************************************************************************)
\* ProgressBar::finish_with_message: the position moves to the length, if there is one
finish_with_message(p, message, e) ==
    [p EXCEPT !.message = message, !.error = e, !.finished = @ + 1,
              !.position = IF p.has_length THEN p.length ELSE @]

\* the task returns Err(e): inspect_err finishes its bar with the failure message
ReturnErr(i, e) ==
    /\ pb' = [pb EXCEPT ![i] = finish_with_message(@, "failure", e)]
    /\ task' = [task EXCEPT ![i] = "done"]
    /\ completed' = Append(completed, [job |-> i, out |-> Err(e)])

\* video.rs:410-424: validate, then spawn the encoder and open its event stream
\* variant: the encoder is spawned before the configuration is validated
TaskStart_LaunchFirst(i) ==
    /\ i \in Tasks
    /\ task[i] = "ready"
    /\ LET config == spawned[i]
           out == output_path(stat, config)
           up == check_up_scaling(config, stat)
       IN  /\ launched' = [launched EXCEPT ![i] = ffmpeg_args(stat, config, out)]
           /\ \E creates \in BOOLEAN : outFiles' = IF creates THEN outFiles \cup {out} ELSE outFiles
           /\ IF up.kind # "Ok"
              THEN ReturnErr(i, UpScalingError(up))
              ELSE task' = [task EXCEPT ![i] = "running"] /\ UNCHANGED <<pb, completed>>
    /\ UNCHANGED <<pc, probe, stat, res_iter, fps_iter, crf_iter, spawned, exited,
                   results, banner, printed, exitCode, call, ret>>

TaskStart(i) ==
    /\ i \in Tasks
    /\ task[i] = "ready"
    /\ LET config == spawned[i]
           out == output_path(stat, config)
           up == check_up_scaling(config, stat)
       IN  IF up.kind # "Ok"
           THEN /\ ReturnErr(i, UpScalingError(up))
                /\ UNCHANGED <<launched, outFiles>>
           ELSE \E how \in {"spawn fails", "iter fails", "runs"} :
                  \* spawn().unwrap() panics before there is a process
                  /\ launched' = IF how = "spawn fails" THEN launched
                                 ELSE [launched EXCEPT ![i] = ffmpeg_args(stat, config, out)]
                  /\ IF how = "runs"
                     THEN /\ task' = [task EXCEPT ![i] = "running"]
                          \* the process opens its output, or cannot
                          /\ \E creates \in BOOLEAN :
                                outFiles' = IF creates THEN outFiles \cup {out} ELSE outFiles
                          /\ UNCHANGED <<pb, completed>>
                     ELSE /\ task' = [task EXCEPT ![i] = "panicked"]
                          /\ completed' = Append(completed, [job |-> i, out |-> JoinError])
                          /\ UNCHANGED <<pb, outFiles>>
    /\ UNCHANGED <<pc, probe, stat, res_iter, fps_iter, crf_iter, spawned, exited,
                   results, banner, printed, exitCode, call, ret>>

EncodeEvents ==
    { Progress(150), Progress(300), OtherEvent,
      Log("Error", <<"boom">>), Log("Fatal", <<FatalTag, NoOutputMsg>>),
      Log("Warning", <<"boom">>), Log("Info", <<"boom">>) }

\* video.rs:432-433
total_frame(st) == ((st.duration \div 1000) * st.video_stream.fps) \div 100

\* variant: a fatal log records the failure but the loop goes on
HandleEvent_NoReturn(i, e) ==
    CASE e.type = "Progress" ->
              /\ pb' = [pb EXCEPT ![i] = [@ EXCEPT !.has_length = TRUE,
                                                   !.length = total_frame(stat),
                                                   !.position = e.frame,
                                                   !.message = "encoding"]]
              /\ UNCHANGED <<task, completed>>
         [] e.type = "Log" ->
              LET r == handle_ffmpeg_event_log(e.level, e.err, FALSE)
              IN  IF r.kind = "Err"
                  THEN /\ pb' = [pb EXCEPT ![i] =
                                   finish_with_message(@, "failure", EncodingError(r.body))]
                       /\ completed' = Append(completed,
                                              [job |-> i, out |-> Err(EncodingError(r.body))])
                       /\ UNCHANGED task
                  ELSE UNCHANGED <<pb, task, completed>>
         [] OTHER -> UNCHANGED <<pb, task, completed>>

\* one iteration of the loop of video.rs:426-446, handling event e
HandleEvent(i, e) ==
    CASE e.type = "Progress" ->
              /\ pb' = [pb EXCEPT ![i] = [@ EXCEPT !.has_length = TRUE,
                                                   !.length = total_frame(stat),
                                                   !.position = e.frame,
                                                   !.message = "encoding"]]
              /\ UNCHANGED <<task, completed>>
         [] e.type = "Log" ->
              LET r == handle_ffmpeg_event_log(e.level, e.err, FALSE)
              IN  IF r.kind = "Err"
                  THEN ReturnErr(i, EncodingError(r.body))
                  ELSE UNCHANGED <<pb, task, completed>>
         [] OTHER -> UNCHANGED <<pb, task, completed>>

\* variant: a fatal log of task i also ends every running sibling with that error
AbortAll(i, e) ==
    LET r == handle_ffmpeg_event_log(e.level, e.err, FALSE)
        others == {j \in Tasks : j # i /\ task[j] = "running"}
        order == CHOOSE sq \in [1..Cardinality(others) -> others] :
                    \A a, b \in 1..Cardinality(others) : a # b => sq[a] # sq[b]
    IN  /\ pb' = [j \in Tasks |->
                    IF j \in others \cup {i}
                    THEN finish_with_message(pb[j], "failure", EncodingError(r.body))
                    ELSE pb[j]]
        /\ task' = [j \in Tasks |-> IF j \in others \cup {i} THEN "done" ELSE task[j]]
        /\ completed' = completed
                        \o <<[job |-> i, out |-> Err(EncodingError(r.body))]>>
                        \o [k \in 1..Cardinality(others) |->
                              [job |-> order[k], out |-> Err(EncodingError(r.body))]]

TaskEvent_AbortsSiblings(i) ==
    /\ i \in Tasks
    /\ task[i] = "running"
    /\ \E e \in EncodeEvents :
          IF e.type = "Log" /\ handle_ffmpeg_event_log(e.level, e.err, FALSE).kind = "Err"
          THEN AbortAll(i, e)
          ELSE HandleEvent(i, e)
    /\ UNCHANGED <<pc, probe, stat, res_iter, fps_iter, crf_iter, spawned, launched, exited,
                   outFiles, results, banner, printed, exitCode, call, ret>>

\* video.rs:426-446: the task handles the next event of its encoder
TaskEvent(i) ==
    /\ i \in Tasks
    /\ task[i] = "running"
    /\ \E e \in EncodeEvents : HandleEvent(i, e)
    /\ UNCHANGED <<pc, probe, stat, res_iter, fps_iter, crf_iter, spawned, launched, exited,
                   outFiles, results, banner, printed, exitCode, call, ret>>

\* video.rs:448 and main.rs:55-66: the event stream ends (the encoder exited with
\* some status), the size of the output is read and the bar is finished
TaskEnd(i) ==
    /\ i \in Tasks
    /\ task[i] = "running"
    /\ \E status \in {"success", "failure"} : exited' = [exited EXCEPT ![i] = status]
    /\ LET out == output_path(stat, spawned[i])
           output_size == calc_size([readable |-> out \in outFiles, size |-> 1])
       IN  IF output_size.kind = "Err"
           THEN ReturnErr(i, OutputSizeError)
           ELSE /\ pb' = [pb EXCEPT ![i] =
                            [finish_with_message(@, "success", NoError) EXCEPT !.done_style = TRUE]]
                /\ task' = [task EXCEPT ![i] = "done"]
                /\ completed' = Append(completed, [job |-> i, out |-> Ok])
    /\ UNCHANGED <<pc, probe, stat, res_iter, fps_iter, crf_iter, spawned, launched,
                   outFiles, results, banner, printed, exitCode, call, ret>>

(***************************************************************************)
(* main, from the join on (main.rs:126-154)                                *)
(***************************************************************************)
\* variant: the outputs in the order in which the tasks completed
join_all_CompletionOrder == [k \in 1..Len(completed) |-> completed[k].out]

\* futures::future::join_all: the outputs of the handles, in the order of the handles
join_all == [i \in Tasks |-> JoinHandleOutput(i)]

\* main.rs:126-130: wait for every task, then unwrap every output; the unwrap of a
\* JoinError panics
JoinAll ==
    /\ pc = "spawn"
    /\ Len(spawned) = Len(iter_prod)
    /\ \A i \in Tasks : Finished(i)
    /\ LET binding == join_all
       IN  IF \E k \in 1..Len(binding) : binding[k].kind = "JoinError"
           THEN pc' = "panicked" /\ exitCode' = "FAILURE" /\ UNCHANGED results
           ELSE pc' = "report" /\ results' = binding /\ UNCHANGED exitCode
    /\ UNCHANGED <<probe, stat, res_iter, fps_iter, crf_iter, spawned, task, pb,
                   launched, exited, outFiles, completed, banner, printed, call, ret>>

\* zip(iter_prod, results).filter(|(_, r)| r.is_err()), each kept pair with its position
RECURSIVE Failures(_, _, _)
Failures(configs, outs, k) ==
    IF k > Len(configs) \/ k > Len(outs) THEN <<>>
    ELSE (IF outs[k].kind = "Err"
          THEN <<[at |-> k, res |-> configs[k][1], fps |-> configs[k][2], crf |-> configs[k][3],
                  label |-> Label(configs[k][1], configs[k][2], configs[k][3]),
                  err |-> outs[k].err]>>
          ELSE <<>>) \o Failures(configs, outs, k + 1)

\* main.rs:132-153: the banner, the failure entries, and Ok(()) as the value of main
Report ==
    /\ pc = "report"
    /\ banner' = (\A k \in 1..Len(results) : results[k].kind = "Ok")
    /\ printed' = Failures(iter_prod, results, 1)
    /\ pc' = "exit"
    /\ exitCode' = "SUCCESS"
    /\ UNCHANGED <<probe, stat, res_iter, fps_iter, crf_iter, spawned, task, pb,
                   launched, exited, outFiles, completed, results, call, ret>>

Next ==
    \/ Stat
    \/ SpawnTask
    \/ \E i \in Tasks : TaskStart(i)
    \/ \E i \in Tasks : TaskEvent(i)
    \/ \E i \in Tasks : TaskEnd(i)
    \/ JoinAll
    \/ Report

Spec == Init /\ [][Next]_vars

(***************************************************************************)
(* Functions applied on their own: the call is drawn in the initial state  *)
(* and one action applies the function to it.                              *)
(***************************************************************************)
InitIdle ==
    /\ pc = "idle"
    /\ probe = [events |-> <<>>, file |-> SourceFile(TRUE), starts |-> TRUE]
    /\ stat = NoStat
    /\ res_iter = <<>>
    /\ fps_iter = <<>>
    /\ crf_iter = <<>>
    /\ spawned = <<>>
    /\ task = <<>>
    /\ pb = <<>>
    /\ launched = <<>>
    /\ exited = <<>>
    /\ outFiles = {}
    /\ completed = <<>>
    /\ results = <<>>
    /\ banner = FALSE
    /\ printed = <<>>
    /\ exitCode = "none"

VideoStat(width, height, fps100, audio_streams) ==
    [kind |-> "Ok", path |-> input_path,
     video_stream |-> [width |-> width, height |-> height, fps |-> fps100, pix_fmt |-> "yuv420p"],
     audio_streams |-> audio_streams, duration |-> 10000, file_size |-> 5]

\* the configurations and source stats check_up_scaling is applied to
CheckConfigs ==
    { VideoConfig(res, fps, 23, has_audio) :
        res \in {R240p, R720p, R1080p, Other(1280, 1080), Other(1920, 720), Other(100, 100)},
        fps \in {29, 30, 60},
        has_audio \in BOOLEAN }

CheckStats ==
    { VideoStat(wh[1], wh[2], fps100, audio) :
        wh \in {<<1280, 720>>, <<1920, 1080>>},
        fps100 \in {2997, 3000, 6000},
        audio \in {<<>>, <<[channels |-> "stereo"]>>} }

\* the resolutions a sweep can hold: the presets, and what from_wh makes of other sizes
SweepRes ==
    { list169[k] : k \in 1..Len(list169) }
        \cup { from_wh(w, h) : w \in {1, 12, 128, 1280}, h \in {2, 28, 72, 720} }

SweepConfigs ==
    { VideoConfig(res, fps, crf, TRUE) : res \in SweepRes, fps \in {3, 30, 32}, crf \in {0, 2, 20} }

\* all sequences over S of length at most n
SeqsUpTo(S, n) == UNION { [1..k -> S] : k \in 0..n }

\* the longest event stream of a probing process, and of an encoding process
MaxProbeEvents == 4
MaxStream == 3

\* what a probing process can emit
StatEvents ==
    { ParsedDuration(10000), ParsedVideo(1280, 720, 3000),
      ParsedAudio("stereo"), ParsedAudio("mono"),
      Log("Fatal", <<FatalTag, NoOutputMsg>>), Log("Fatal", <<FatalTag, "boom">>),
      Log("Warning", <<"boom">>) }

StatCalls ==
    { [op |-> "stat", probe |-> [events |-> ev, file |-> SourceFile(readable), starts |-> TRUE]] :
        ev \in SeqsUpTo(StatEvents, MaxProbeEvents), readable \in BOOLEAN }

\* the sources and the requested axes from_wh_dynamic is applied to
DynSources ==
    { [width |-> 1920, height |-> 1080], [width |-> 1280, height |-> 720],
      [width |-> 1000, height |-> 500] }

DynWidths == { None, Some(100) } \cup { Some(to_wh(list169[k])[1]) : k \in 1..Len(list169) }
DynHeights == { None, Some(100) } \cup { Some(to_wh(list169[k])[2]) : k \in 1..Len(list169) }

\* a source without height (its ratio is not a number) is asked for neither axis only
DynCalls ==
    { [op |-> "from_wh_dynamic", width |-> w, height |-> h, video_stream |-> vs] :
        w \in DynWidths, h \in DynHeights, vs \in DynSources }
      \cup { [op |-> "from_wh_dynamic", width |-> None, height |-> None,
              video_stream |-> [width |-> 1920, height |-> 0]] }

\* the event stream of the encoder of one job, and whether it created its output
EncodeCalls ==
    { [op |-> "process", events |-> ev, creates |-> c] :
        ev \in SeqsUpTo(EncodeEvents, MaxStream), c \in BOOLEAN }

CheckCalls ==
    { [op |-> "check_up_scaling", config |-> c, stat |-> st] : c \in CheckConfigs, st \in CheckStats }

FileNameCalls ==
    { [op |-> "to_file_name", a |-> a, b |-> b] : a \in SweepConfigs, b \in SweepConfigs }

\* the job whose encoding loop is run on its own: 720p, 30 fps, crf 20 of a 1280x720
\* source at 30 fps with audio
EncodeSource ==
    [events |-> <<ParsedDuration(10000), ParsedVideo(1280, 720, 3000), ParsedAudio("stereo")>>,
     file |-> SourceFile(TRUE), starts |-> TRUE]

EncodeConfig == VideoConfig(R720p, 30, 20, TRUE)

\* main after the probe and the spawn of the one job, the job's encoder launched
InitEncode ==
    LET st == video_stat(input_path, EncodeSource)
        out == output_path(st, EncodeConfig)
    IN  /\ pc = "spawn"
        /\ probe = EncodeSource
        /\ stat = st
        /\ res_iter = <<R720p>>
        /\ fps_iter = <<30>>
        /\ crf_iter = <<20>>
        /\ spawned = <<EncodeConfig>>
        /\ task = <<"running">>
        /\ pb = <<NewProgressBar(R720p, 30, 20)>>
        /\ launched = <<ffmpeg_args(st, EncodeConfig, out)>>
        /\ exited = <<"none">>
        /\ outFiles = IF call.creates THEN {out} ELSE {}
        /\ completed = <<>>
        /\ results = <<>>
        /\ banner = FALSE
        /\ printed = <<>>
        /\ exitCode = "none"

InitFn ==
    /\ \/ call \in CheckCalls
       \/ call \in FileNameCalls
       \/ call \in StatCalls
       \/ call \in DynCalls
       \/ call \in EncodeCalls
    /\ ret = [kind |-> "none"]
    /\ IF call.op = "process" THEN InitEncode ELSE InitIdle

ApplyCheckUpScaling ==
    /\ call.op = "check_up_scaling"
    /\ ret.kind = "none"
    /\ ret' = [kind |-> "returned", value |-> check_up_scaling(call.config, call.stat)]
    /\ UNCHANGED <<mainVars, call>>

ApplyToFileName ==
    /\ call.op = "to_file_name"
    /\ ret.kind = "none"
    /\ ret' = [kind |-> "returned",
               suffix |-> <<VideoConfig_to_file_name(call.a), VideoConfig_to_file_name(call.b)>>,
               path |-> <<output_path([path |-> input_path], call.a),
                          output_path([path |-> input_path], call.b)>>]
    /\ UNCHANGED <<mainVars, call>>

ApplyStat ==
    /\ call.op = "stat"
    /\ ret.kind = "none"
    /\ ret' = [kind |-> "returned", value |-> video_stat(input_path, call.probe)]
    /\ UNCHANGED <<mainVars, call>>

ApplyFromWhDynamic ==
    /\ call.op = "from_wh_dynamic"
    /\ ret.kind = "none"
    /\ ret' = [kind |-> "returned",
               value |-> from_wh_dynamic(call.width, call.height, call.video_stream)]
    /\ UNCHANGED <<mainVars, call>>

\* how many events of its stream the job has handled
Handled == IF ret.kind = "none" THEN 0 ELSE ret.n

\* video.rs:426-446 on the stream of the call: the job handles the next event
ProcessNextEvent ==
    /\ call.op = "process"
    /\ task[1] = "running"
    /\ Handled < Len(call.events)
    /\ HandleEvent(1, call.events[Handled + 1])
    /\ ret' = [kind |-> "handled", n |-> Handled + 1]
    /\ UNCHANGED <<pc, probe, stat, res_iter, fps_iter, crf_iter, spawned, launched, exited,
                   outFiles, results, banner, printed, exitCode, call>>

\* the stream is exhausted: the loop ends
ProcessStreamEnd ==
    /\ call.op = "process"
    /\ Handled = Len(call.events)
    /\ TaskEnd(1)

NextFn ==
    \/ ApplyCheckUpScaling
    \/ ApplyToFileName
    \/ ApplyStat
    \/ ApplyFromWhDynamic
    \/ ProcessNextEvent
    \/ ProcessStreamEnd

SpecFn == InitFn /\ [][NextFn]_vars

(***************************************************************************)
(* Properties                                                              *)
(***************************************************************************)
Joined == pc \in {"report", "exit"}

\* the entries of completed that task i produced
OutputsOf(i) == {k \in 1..Len(completed) : completed[k].job = i}

\* C1: after the join the outcome sequence is as long as the configuration sequence,
\* its i-th outcome is the outcome of the task spawned for the i-th configuration,
\* and every printed failure names the configuration of the task that failed with
\* that error (the one its own progress bar shows).
C1_OutcomesFollowConfigs ==
    Joined =>
      /\ LET configs == iter_prod
         IN  /\ Len(results) = Len(configs)
             /\ \A i \in 1..Len(results) :
                   <<spawned[i].res, spawned[i].fps, spawned[i].crf>> = configs[i]
      /\ \A i \in 1..Len(results) :
            /\ \E k \in OutputsOf(i) : completed[k].out = results[i]
            /\ results[i].kind = "Err" <=> pb[i].message = "failure"
            /\ results[i].kind = "Err" => pb[i].error = results[i].err
      /\ \A k \in 1..Len(printed) :
            LET e == printed[k]
            IN  /\ e.at \in Tasks
                /\ <<e.res, e.fps, e.crf>> = <<spawned[e.at].res, spawned[e.at].fps, spawned[e.at].crf>>
                /\ e.label = pb[e.at].prefix
                /\ pb[e.at].message = "failure"
                /\ e.err = pb[e.at].error

\* C1 witness: the report is printed for tasks that completed out of spawn order,
\* some failing and some succeeding
C1_Witness ==
    /\ pc = "exit"
    /\ Len(printed) >= 1
    /\ \E i, j \in 1..Len(results) : results[i].kind = "Ok" /\ results[j].kind = "Err"
    /\ \E k \in 1..Len(completed) : completed[k].job # k

\* C2: once every task has finished, a task that panicked has a failure outcome
\* carrying the runtime error, and the run goes on to the report.
C2_PanicBecomesFailureOutcome ==
    (pc \notin {"start", "aborted", "probe panicked", "spawn"}) =>
      /\ Joined
      /\ Len(results) = Len(spawned)
      /\ \A i \in Tasks : task[i] = "panicked" => results[i] = Err(JoinError.err)

\* C3: the report begins only when every job of the matrix has finished, and then
\* every job has exactly one recorded outcome, a success or a failure.
C3_OneOutcomePerJob ==
    /\ (banner \/ printed # <<>>) => pc = "exit"
    /\ Joined =>
         LET n == Len(iter_prod)
         IN  /\ Len(spawned) = n
             /\ Len(completed) = n
             /\ \A i \in 1..n :
                   /\ task[i] = "done"
                   /\ Cardinality(OutputsOf(i)) = 1
                   /\ \A k \in OutputsOf(i) : completed[k].out.kind \in {"Ok", "Err"}

\* C3 witness: the report has begun and one of the jobs ended with a fatal log
C3_Witness ==
    /\ pc = "report"
    /\ Len(completed) >= 2
    /\ \E k \in 1..Len(completed) :
          completed[k].out.kind = "Err" /\ completed[k].out.err.kind = "Encoding"

\* what belongs to job b: its task, progress bar, process, outcome and output file
Outcomes(b) == {completed[k].out : k \in OutputsOf(b)}

HasOutput(b) == output_path(stat, spawned[b]) \in outFiles

\* task a ends with an error, or panics, in this step
Fails(a) ==
    /\ task[a] \in {"ready", "running"}
    /\ task'[a] \in {"done", "panicked"}
    /\ \E k \in 1..Len(completed') : completed'[k].job = a /\ completed'[k].out.kind # "Ok"

\* C4: a step in which job A fails (a fatal or error log, any returned error, a panic)
\* leaves every other job B as it was: B's progress bar (position, length, message),
\* its task, its process and output path, its outcome and its output file.
C4_FailureIsIsolated ==
    [][\A a, b \in Tasks :
          (a # b /\ Fails(a)) =>
             /\ pb'[b] = pb[b]
             /\ task'[b] = task[b]
             /\ launched'[b] = launched[b]
             /\ exited'[b] = exited[b]
             /\ Outcomes(b)' = Outcomes(b)
             /\ HasOutput(b)' = HasOutput(b)]_vars

\* C4 witness: A failed with a fatal log while B was encoding, and B went on to
\* report progress and to succeed
C4_Witness ==
    \E a, b \in Tasks :
       /\ a # b
       /\ \E ka \in OutputsOf(a), kb \in OutputsOf(b) :
             /\ ka < kb
             /\ completed[ka].out.kind = "Err"
             /\ completed[ka].out.err.kind = "Encoding"
             /\ completed[kb].out.kind = "Ok"
       /\ pb[b].has_length
       /\ pb[b].message = "success"

\* C5: a job whose configuration fails check_up_scaling never launches a process
\* and no output file is written for it; once done, its outcome is the validation
\* failure.  With no audio stream in the source no job launches a process.
C5_InvalidConfigNeverLaunches ==
    \A i \in Tasks :
       LET up == check_up_scaling(spawned[i], stat)
       IN  /\ up.kind # "Ok" =>
                /\ launched[i] = <<>>
                /\ exited[i] = "none"
                /\ task[i] \in {"ready", "done"}
                /\ ~HasOutput(i)
                /\ task[i] = "done" => Outcomes(i) = {Err(UpScalingError(up))}
           /\ (spawned[i].has_audio /\ Len(stat.audio_streams) = 0) => launched[i] = <<>>

\* C5 witness: a job asking for audio of a source without audio has failed, unlaunched
C5_Witness ==
    \E i \in Tasks :
       /\ task[i] = "done"
       /\ spawned[i].has_audio
       /\ Len(stat.audio_streams) = 0
       /\ Outcomes(i) = {Err(UpScalingError(UpHasAudio))}
       /\ launched[i] = <<>>

\* C6: a job whose process exited with a non-zero status, no fatal or error log
\* having been seen, ends with a failure outcome.
C6_NonZeroExitFails ==
    \A i \in Tasks :
       (task[i] = "done" /\ exited[i] = "failure") =>
          \A k \in OutputsOf(i) : completed[k].out.kind = "Err"

\* C7: when the run has ended and some job's outcome is a failure, the exit status
\* of the program signals failure.
C7_ExitSignalsFailure ==
    (pc = "exit" /\ \E k \in 1..Len(results) : results[k].kind = "Err") =>
       exitCode = "FAILURE"

\* C8: check_up_scaling returns the first violated rule in the order resolution,
\* frame rate, audio: Resolution if the requested width or height exceeds the
\* source's, else Fps if the requested fps exceeds the source fps, else HasAudio if
\* audio is requested of a source without audio streams, else Ok.
C8_FirstViolatedRule ==
    (call.op = "check_up_scaling" /\ ret.kind = "returned") =>
       LET c == call.config
           v == call.stat.video_stream
           wh == to_wh(c.res)
       IN  IF wh[1] > v.width \/ wh[2] > v.height
           THEN ret.value.kind = "Resolution" /\ ret.value.c = c.res
           ELSE IF c.fps * 100 > v.fps
           THEN ret.value.kind = "Fps" /\ ret.value.c = c.fps
           ELSE IF c.has_audio /\ call.stat.audio_streams = <<>>
           THEN ret.value.kind = "HasAudio"
           ELSE ret.value.kind = "Ok"

\* C8 witness: a configuration breaking all three rules is reported as Resolution
C8_Witness ==
    /\ call.op = "check_up_scaling"
    /\ ret.kind = "returned"
    /\ ret.value.kind = "Resolution"
    /\ call.config.fps * 100 > call.stat.video_stream.fps
    /\ call.config.has_audio
    /\ call.stat.audio_streams = <<>>

\* the k-th element of the product of the three lists, resolution outermost and
\* quality factor innermost
ProductAt(k) ==
    LET F == Len(fps_iter)
        C == Len(crf_iter)
    IN  <<res_iter[((k - 1) \div (F * C)) + 1],
          fps_iter[(((k - 1) \div C) % F) + 1],
          crf_iter[((k - 1) % C) + 1]>>

\* C9: the job sequence has |resolutions| x |frame rates| x |quality factors| elements
\* in the order resolution outermost, frame rate next, quality factor innermost; the
\* tasks are spawned from that sequence and the report is labelled from it.
C9_MatrixIsOrderedProduct ==
    (pc \notin {"idle", "start", "aborted", "probe panicked"}) =>
      LET jobs == iter_prod
          expected == [k \in 1..Len(jobs) |-> ProductAt(k)]
      IN  /\ Len(jobs) = Len(res_iter) * Len(fps_iter) * Len(crf_iter)
          /\ jobs = expected
          /\ Len(spawned) <= Len(jobs)
          /\ \A i \in Tasks :
                /\ <<spawned[i].res, spawned[i].fps, spawned[i].crf>> = expected[i]
                /\ pb[i].prefix = Label(expected[i][1], expected[i][2], expected[i][3])
          /\ Joined => Len(spawned) = Len(jobs)
          /\ \A k \in 1..Len(printed) :
                /\ printed[k].at \in Tasks
                /\ <<printed[k].res, printed[k].fps, printed[k].crf>> = expected[printed[k].at]
                /\ results[printed[k].at].kind = "Err"

\* C9 witness: a report with a failure entry for a sweep of two resolutions and two
\* frame rates
C9_Witness ==
    /\ pc = "exit"
    /\ Len(res_iter) = 2
    /\ Len(fps_iter) = 2
    /\ Len(printed) >= 1
    /\ Len(spawned) = 4

\* C10: two distinct configurations of a sweep have distinct file-name suffixes and
\* distinct output paths.
C10_FileNameInjective ==
    (call.op = "to_file_name" /\ ret.kind = "returned" /\ call.a # call.b) =>
       /\ ret.suffix[1] # ret.suffix[2]
       /\ ret.path[1] # ret.path[2]

\* C10 witness: two configurations whose digits run together (fps 3 with crf 20,
\* fps 32 with crf 0) are named apart
C10_Witness ==
    /\ call.op = "to_file_name"
    /\ ret.kind = "returned"
    /\ call.a.res = call.b.res
    /\ call.a.fps = 3 /\ call.a.crf = 20
    /\ call.b.fps = 32 /\ call.b.crf = 0
    /\ ret.suffix[1] # ret.suffix[2]

\* a log of severity fatal or error
IsFatalLog(e) == e.type = "Log" /\ e.level \in {"Fatal", "Error"}

\* the place of the first fatal or error log of a stream, 0 if it has none
FirstFatal(ev) ==
    IF \E k \in 1..Len(ev) : IsFatalLog(ev[k])
    THEN CHOOSE k \in 1..Len(ev) :
            IsFatalLog(ev[k]) /\ \A j \in 1..(k - 1) : ~IsFatalLog(ev[j])
    ELSE 0

\* the message of a log: its text after the last "[fatal] " tag
MessageOf(err) ==
    LET tags == {k \in 1..Len(err) : err[k] = FatalTag}
        last == IF tags = {} THEN 0 ELSE CHOOSE k \in tags : \A j \in tags : j <= k
    IN  SubSeq(err, last + 1, Len(err))

\* the progress events among the first n events of a stream
ProgressIn(ev, n) == {k \in 1..n : ev[k].type = "Progress"}

\* C11: in the encoding of a job the first fatal or error log ends the job with a
\* failure carrying that log's message, and no later event of the stream is handled;
\* before it, warnings and logs of other severities change nothing: the job is still
\* running, has no outcome, and its progress bar shows the last progress event only.
C11_FirstFatalLogEndsJob ==
    (call.op = "process") =>
       LET ev == call.events
           n == Handled
           f == FirstFatal(ev)
           seen == ProgressIn(ev, IF f > 0 /\ n >= f THEN f - 1 ELSE n)
       IN  /\ f > 0 => n <= f
           /\ pb[1].has_length = (seen # {})
           /\ pb[1].has_length => pb[1].length = 300
           /\ (f > 0 /\ n = f) =>
                 /\ task[1] = "done"
                 /\ completed = <<[job |-> 1, out |-> Err(EncodingError(MessageOf(ev[f].err)))]>>
                 /\ pb[1].message = "failure"
                 /\ pb[1].error = EncodingError(MessageOf(ev[f].err))
           /\ (f = 0 \/ n < f) =>
                 /\ \A k \in 1..Len(completed) :
                       completed[k].out.kind = "Err" => completed[k].out.err.kind # "Encoding"
                 /\ task[1] = "done" => n = Len(ev)
                 /\ task[1] = "running" =>
                       /\ completed = <<>>
                       /\ pb[1].finished = 0
                       /\ pb[1].error = NoError
                       /\ seen = {} => pb[1] = NewProgressBar(R720p, 30, 20)
                       /\ seen # {} =>
                             /\ pb[1].message = "encoding"
                             /\ \E k \in seen : /\ \A j \in seen : j <= k
                                                /\ pb[1].position = ev[k].frame

\* C11 witness: a warning, then an error log that ends the job, a progress event
\* left unhandled behind it
C11_Witness ==
    /\ call.op = "process"
    /\ call.events = <<Log("Warning", <<"boom">>), Log("Error", <<"boom">>), Progress(300)>>
    /\ Handled = 2
    /\ task[1] = "done"
    /\ completed = <<[job |-> 1, out |-> Err(EncodingError(<<"boom">>))]>>
    /\ ~pb[1].has_length

\* the fatal or error log ffmpeg writes when it is given no output file
IsBenignLog(e) == IsFatalLog(e) /\ MessageOf(e.err) = <<NoOutputMsg>>

\* C12: the log "At least one output file must be specified" is ignored by the probe,
\* whose result is that of the stream without it, and is fatal in an encoding, where
\* the job fails with that message; every other fatal or error log aborts the probe
\* with FfmpegError carrying the message of the first of them.
C12_BenignLogOnlyWhileProbing ==
    /\ (call.op = "stat" /\ ret.kind = "returned") =>
          LET ev == call.probe.events
              bad == {k \in 1..Len(ev) : IsFatalLog(ev[k]) /\ ~IsBenignLog(ev[k])}
              rest == SelectSeq(ev, LAMBDA e : ~IsBenignLog(e))
          IN  /\ bad # {} =>
                    \E k \in bad :
                       /\ \A j \in bad : k <= j
                       /\ ret.value = StatErr([kind |-> "FfmpegError", body |-> MessageOf(ev[k].err)])
              /\ bad = {} =>
                    /\ ret.value.kind = "Err" => ret.value.err.kind # "FfmpegError"
                    /\ ret.value = video_stat(input_path, [call.probe EXCEPT !.events = rest])
    /\ (call.op = "process" /\ Handled >= 1) =>
          LET e == call.events[Handled]
          IN  IsBenignLog(e) =>
                 /\ task[1] = "done"
                 /\ completed = <<[job |-> 1, out |-> Err(EncodingError(<<NoOutputMsg>>))]>>
                 /\ pb[1].message = "failure"

\* C12 witness: the probe met the log before the duration and the video stream, and
\* returned a VideoStat
C12_Witness ==
    /\ call.op = "stat"
    /\ ret.kind = "returned"
    /\ ret.value.kind = "Ok"
    /\ Len(call.probe.events) >= 3
    /\ IsBenignLog(call.probe.events[1])

\* the places of the descriptors of one kind in a stream of probe events
DescriptorsAt(ev, kind) ==
    {k \in 1..Len(ev) : ev[k].type = "ParsedInputStream" /\ ev[k].kind = kind}

\* the audio descriptors of a stream, in the order of the stream
RECURSIVE AudioIn(_)
AudioIn(ev) ==
    IF ev = <<>> THEN <<>>
    ELSE AudioIn(SubSeq(ev, 1, Len(ev) - 1))
            \o (IF Len(ev) \in DescriptorsAt(ev, "Audio") THEN <<ev[Len(ev)].data>> ELSE <<>>)

\* C13: the probe returns a VideoStat only for a stream with exactly one video
\* descriptor and a duration: the VideoStat holds that video stream and the audio
\* descriptors in the order of the stream.  When no fatal log aborts the probe, a
\* stream without video descriptor gives NoVideoStreamFound, one with several gives
\* MultipleVideoStreamFound, and one with a single video descriptor and no duration
\* gives NoDurationFound.
C13_StatNeedsOneVideoAndDuration ==
    (call.op = "stat" /\ ret.kind = "returned") =>
       LET ev == call.probe.events
           aborted == \E k \in 1..Len(ev) : IsFatalLog(ev[k]) /\ ~IsBenignLog(ev[k])
           videos == DescriptorsAt(ev, "Video")
           durations == {k \in 1..Len(ev) : ev[k].type = "ParsedDuration"}
       IN  /\ ret.value.kind = "Ok" =>
                /\ Cardinality(videos) = 1
                /\ durations # {}
                /\ \A k \in videos : ret.value.video_stream = ev[k].data
                /\ ret.value.audio_streams = AudioIn(ev)
                /\ \E k \in durations : ret.value.duration = ev[k].duration
           /\ ~aborted =>
                /\ Cardinality(videos) = 0 => ret.value = StatErr([kind |-> "NoVideoStreamFound"])
                /\ Cardinality(videos) > 1 =>
                      ret.value = StatErr([kind |-> "MultipleVideoStreamFound"])
                /\ (Cardinality(videos) = 1 /\ durations = {}) =>
                      ret.value = StatErr([kind |-> "NoDurationFound"])

\* C13 witness: a VideoStat of a stream with two audio descriptors around the video
\* descriptor, kept in their order
C13_Witness ==
    /\ call.op = "stat"
    /\ ret.kind = "returned"
    /\ ret.value.kind = "Ok"
    /\ call.probe.events[1] = ParsedAudio("mono")
    /\ call.probe.events[2] = ParsedVideo(1280, 720, 3000)
    /\ call.probe.events[3] = ParsedAudio("stereo")
    /\ ret.value.audio_streams = <<[channels |-> "mono"], [channels |-> "stereo"]>>

\* C14: a failed probe ends the run with its error and a failure exit, no task
\* spawned, no progress bar registered, no encoder launched and nothing reported; a
\* task is spawned only once the VideoStat exists, and the stat the jobs read stays
\* what the probe returned: every launched encoder was given its input path.
C14_ProbeFailureAbortsBeforeSpawn ==
    /\ stat.kind = "Err" =>
          /\ pc = "aborted"
          /\ exitCode = "FAILURE"
          /\ spawned = <<>> /\ task = <<>> /\ pb = <<>> /\ launched = <<>>
          /\ outFiles = {} /\ completed = <<>> /\ results = <<>>
          /\ ~banner /\ printed = <<>>
    /\ pc = "aborted" => (stat.kind = "Err" /\ stat = video_stat(input_path, probe))
    /\ spawned # <<>> =>
          /\ stat.kind = "Ok"
          /\ stat = video_stat(input_path, probe)
          /\ \A i \in Tasks :
                launched[i] # <<>> =>
                   launched[i] = ffmpeg_args(stat, spawned[i], output_path(stat, spawned[i]))

\* C14 witness: the probe found no video stream and the run is over
C14_Witness ==
    /\ pc = "aborted"
    /\ stat = StatErr([kind |-> "NoVideoStreamFound"])
    /\ exitCode = "FAILURE"
    /\ spawned = <<>>

\* sub occurs in s as a run of consecutive tokens
ContainsSeq(s, sub) ==
    \E k \in 0..(Len(s) - Len(sub)) : SubSeq(s, k + 1, k + Len(sub)) = sub

\* format!("{}", b) of a bool
DisplayBool(b) == IF b THEN "true" ELSE "false"

\* the jobs whose outcome is a failure
Failing == {i \in 1..Len(results) : results[i].kind = "Err"}

\* the failure entries are those of the failing jobs, one each, in the order of the
\* enumeration, each with the error of its job
EntriesFollowFailures ==
    /\ Len(printed) = Cardinality(Failing)
    /\ \A k \in 1..Len(printed) :
          /\ printed[k].at \in Failing
          /\ printed[k].err = results[printed[k].at].err
          /\ \A j \in 1..(k - 1) : printed[j].at < printed[k].at

\* C15: when the report is printed the banner is there iff every outcome is a
\* success; otherwise there is one failure entry per failing job and none for a
\* successful one, in the order of the enumeration, and each entry names the
\* resolution, the frame rate, the quality factor and the audio flag of its job's
\* configuration, and carries its error.
C15_ReportNamesWholeConfig ==
    (pc = "exit") =>
       /\ banner <=> (\A i \in 1..Len(results) : results[i].kind = "Ok")
       /\ EntriesFollowFailures
       /\ \A k \in 1..Len(printed) :
             LET c == spawned[printed[k].at]
                 line == printed[k].label
             IN  /\ ContainsSeq(line, Debug(c.res))
                 /\ ContainsSeq(line, Display(c.fps))
                 /\ ContainsSeq(line, Display(c.crf))
                 /\ ContainsSeq(line, <<DisplayBool(c.has_audio)>>)

\* the frames of the progress events an encoder emits
ProgressFrames == {e.frame : e \in {x \in EncodeEvents : x.type = "Progress"}}

\* C16: once a job has handled a progress event its bar's total is the duration of
\* the source (in seconds, fractions included) times the source frame rate, and while
\* it encodes its position is the frame of a progress event.
C16_TotalIsDurationTimesFps ==
    \A i \in Tasks :
       /\ pb[i].has_length => pb[i].length * 100000 = stat.duration * stat.video_stream.fps
       /\ pb[i].message = "encoding" => pb[i].position \in ProgressFrames

\* an argument list without the (first) occurrence of the output path
SansOutput(args, out) ==
    IF ContainsSeq(args, out)
    THEN LET k == CHOOSE k \in 0..(Len(args) - Len(out)) :
                     /\ SubSeq(args, k + 1, k + Len(out)) = out
                     /\ \A j \in 0..(k - 1) : SubSeq(args, j + 1, j + Len(out)) # out
         IN  SubSeq(args, 1, k) \o SubSeq(args, k + Len(out) + 1, Len(args))
    ELSE args

\* C17: the argument list of every launched encoder holds the input path, the scaling
\* argument of the resolution, the quality factor, the output path and the overwrite
\* flag, and a frame-rate argument for the configured fps: the encoders of two jobs
\* that differ in fps only are given different arguments beside their output paths.
C17_ArgsCarryFrameRate ==
    \A i \in Tasks :
       launched[i] # <<>> =>
          LET c == spawned[i]
              out == output_path(stat, c)
          IN  /\ ContainsSeq(launched[i], stat.path)
              /\ ContainsSeq(launched[i], to_args(c.res))
              /\ ContainsSeq(launched[i], <<"-crf">> \o Display(c.crf))
              /\ ContainsSeq(launched[i], out)
              /\ ContainsSeq(launched[i], <<"-y">>)
              /\ \A j \in Tasks :
                    (/\ launched[j] # <<>>
                     /\ spawned[j].res = c.res
                     /\ spawned[j].crf = c.crf
                     /\ spawned[j].has_audio = c.has_audio
                     /\ spawned[j].fps # c.fps) =>
                       SansOutput(launched[i], out)
                          # SansOutput(launched[j], output_path(stat, spawned[j]))

Abs(x) == IF x < 0 THEN -x ELSE x

Presets == {list169[k] : k \in 1..Len(list169)}

\* the source of the call has the aspect ratio 16:9
Source169 == call.video_stream.width * 9 = call.video_stream.height * 16

\* what the claim says of every call of from_wh_dynamic: given axes are returned as
\* they are, a missing axis is the nearest integer to the given one scaled by the
\* source's aspect ratio, and of a 16:9 source 720 alone, 1280 alone and 1280x720
\* all give R720p
DynamicAxesDerived ==
    LET w == call.width
        h == call.height
        rw == call.video_stream.width
        rh == call.video_stream.height
        got == to_wh(ret.value.res)
    IN  /\ (w # None /\ h # None) => ret.value = [kind |-> "Ok", res |-> from_wh(w[1], h[1])]
        /\ (w = None /\ h # None) =>
              /\ ret.value.kind = "Ok"
              /\ got[2] = h[1]
              /\ 2 * Abs(got[1] * rh - h[1] * rw) <= rh
        /\ (w # None /\ h = None) =>
              /\ ret.value.kind = "Ok"
              /\ got[1] = w[1]
              /\ 2 * Abs(got[2] * rw - w[1] * rh) <= rw
        /\ (Source169 /\ <<w, h>> \in {<<None, Some(720)>>, <<Some(1280), None>>,
                                       <<Some(1280), Some(720)>>}) =>
              ret.value = [kind |-> "Ok", res |-> R720p]

\* C18 as claimed: besides the above, for every preset of a 16:9 source its height
\* alone and its width alone both give the preset.
C18_EveryPresetFromOneAxis ==
    (call.op = "from_wh_dynamic" /\ ret.kind = "returned"
        /\ (call.width # None \/ call.height # None)) =>
       /\ DynamicAxesDerived
       /\ Source169 =>
             \A p \in Presets :
                /\ (call.width = None /\ call.height = Some(to_wh(p)[2])) =>
                      ret.value = [kind |-> "Ok", res |-> p]
                /\ (call.width = Some(to_wh(p)[1]) /\ call.height = None) =>
                      ret.value = [kind |-> "Ok", res |-> p]

\* C18 amended: given axes are returned as they are and a missing axis is the nearest
\* integer to the given one scaled by the source's aspect ratio; of a 16:9 source 720
\* alone, 1280 alone and 1280x720 give R720p; for every preset of a 16:9 source its
\* width alone gives the preset, and its height alone gives the preset except for
\* R240p and R480p, whose heights give 427x240 and 853x480, which are no presets.
C18_PresetFromOneAxisButTwo ==
    (call.op = "from_wh_dynamic" /\ ret.kind = "returned"
        /\ (call.width # None \/ call.height # None)) =>
       /\ DynamicAxesDerived
       /\ Source169 =>
             /\ \A p \in Presets :
                   /\ (call.width = Some(to_wh(p)[1]) /\ call.height = None) =>
                         ret.value = [kind |-> "Ok", res |-> p]
                   /\ (p \notin {R240p, R480p} /\ call.width = None
                          /\ call.height = Some(to_wh(p)[2])) =>
                         ret.value = [kind |-> "Ok", res |-> p]
             /\ (call.width = None /\ call.height = Some(240)) =>
                   ret.value = [kind |-> "Ok", res |-> Other(427, 240)]
             /\ (call.width = None /\ call.height = Some(480)) =>
                   ret.value = [kind |-> "Ok", res |-> Other(853, 480)]

\* C18 witness: the height of R240p alone, of a 1920x1080 source, is resolved to
\* 427x240
C18_Witness ==
    /\ call.op = "from_wh_dynamic"
    /\ call.width = None
    /\ call.height = Some(240)
    /\ call.video_stream = [width |-> 1920, height |-> 1080]
    /\ ret.kind = "returned"
    /\ ret.value = [kind |-> "Ok", res |-> Other(427, 240)]

\* C19: from_wh_dynamic with neither axis given returns BothAreDynamicValue and no
\* resolution, whatever the source stream; every resolution it does return has both
\* axes resolved to numbers; the call launches no encoder and records no job outcome,
\* so the error is no job's failure.
C19_BothDynamicIsRejected ==
    (call.op = "from_wh_dynamic" /\ ret.kind = "returned") =>
       /\ (call.width = None /\ call.height = None) =>
             /\ ret.value = BothAreDynamicValue
             /\ "res" \notin DOMAIN ret.value
       /\ ret.value.kind = "Ok" =>
             /\ call.width # None \/ call.height # None
             /\ to_wh(ret.value.res)[1] \in Nat
             /\ to_wh(ret.value.res)[2] \in Nat
       /\ launched = <<>>
       /\ completed = <<>>
       /\ spawned = <<>>

\* C19 witness: neither axis given, of a source whose ratio is not a number
C19_Witness ==
    /\ call.op = "from_wh_dynamic"
    /\ call.width = None
    /\ call.height = None
    /\ call.video_stream = [width |-> 1920, height |-> 0]
    /\ ret.kind = "returned"
    /\ ret.value.kind = "Err"

\* the run is over: main has returned or panicked
RunOver == pc \in {"exit", "panicked", "aborted", "probe panicked"}

\* C20: over the whole run the progress bar of each job is finished exactly once,
\* with the success message iff the job's outcome is a success and with the failure
\* message iff it is a failure, and a finished bar is never updated again.
C20_BarFinishedExactlyOnce ==
    /\ [](\A i \in Tasks :
             /\ pb[i].finished <= 1
             /\ RunOver => pb[i].finished = 1
             /\ pb[i].finished = 1 =>
                   /\ pb[i].message \in {"success", "failure"}
                   /\ pb[i].message = "success" <=> Outcomes(i) = {Ok}
                   /\ pb[i].message = "failure" <=> Outcomes(i) = {Err(pb[i].error)}
             /\ (pb[i].message = "success" /\ pb[i].finished = 1) => HasOutput(i))
    /\ [][\A i \in Tasks : pb[i].finished = 1 => pb'[i] = pb[i]]_vars

====
